---- MODULE Spec2Model ----
(***************************************************************************)
(* Live Sensor Dashboard: the server-side ring buffers, the capture flag,  *)
(* the settings stores and the chart callbacks of                          *)
(*   web_dashboard_1.py  (single page, variant = 1)                        *)
(*   web_dashboard_2.py  (multi page,  variant = 2)                        *)
(* Every Dash callback is one action.  Values are fixed point, in tenths   *)
(* (50.0 is 500); timestamps are readings of a strictly increasing clock.  *)
(***************************************************************************)
EXTENDS Integers, Sequences, FiniteSets, TLC

\* ---------------------------------------------------------------- bounds
\* MAX_BUFFER_SIZE is 10000 in the source; the deques are scaled down.
MAX_BUFFER_SIZE == 2
\* number of samples the clock can stamp before the model stops appending:
\* enough to overflow the deques
MaxClock == MAX_BUFFER_SIZE + 1
\* DEFAULT_DISPLAY_POINTS (50) of web_dashboard_1, scaled with the deques
DEFAULT_DISPLAY_POINTS == MAX_BUFFER_SIZE - 1
\* DEFAULT_DISPLAY_POINTS_DASH (100) of web_dashboard_2, scaled with the deques
DEFAULT_DISPLAY_POINTS_DASH == MAX_BUFFER_SIZE - 1
\* DEFAULT_DISPLAY_POINTS_DETAIL (500), scaled with the deques
DEFAULT_DISPLAY_POINTS_DETAIL == MAX_BUFFER_SIZE

\* largest n_clicks a click on a button reports
MaxClicks == 2

\* ------------------------------------------------------- program constants
DefaultMarkerSize == 6
Scale == 10
DefaultValue == 50 * Scale
ClampLow == 0
ClampHigh == 120 * Scale
DrawMax == 25

Channels == {"s1", "s2", "s3", "s4"}
\* f's{i}'
ChannelNames == <<"s1", "s2", "s3", "s4">>
GraphIds == 1..4

Min2(a, b) == IF a < b THEN a ELSE b
Max2(a, b) == IF a > b THEN a ELSE b

\* dict.get(key, default)
Get(d, k, default) == IF k \in DOMAIN d THEN d[k] ELSE default
EmptyDict == [k \in {} |-> 0]
\* Python truthiness of a dict / None
Truthy(d) == DOMAIN d # {}

\* ------------------------------------------------------------ ring buffers
\* (mutation) a full deque refuses the new entry instead of evicting the oldest
DequeAppend_keepold(q, x) ==
    IF Len(q) >= MAX_BUFFER_SIZE THEN q ELSE Append(q, x)

\* collections.deque(maxlen=MAX_BUFFER_SIZE).append
DequeAppend(q, x) ==
    IF Len(q) >= MAX_BUFFER_SIZE THEN Tail(q) \o <<x>> ELSE Append(q, x)

\* itertools.islice(q, start, stop) materialised by list(): the entries at
\* 0-based positions start <= i < stop that exist
Islice(q, start, stop) == SubSeq(q, start + 1, Min2(stop, Len(q)))

\* buffer[-1] if buffer else 50.0
LastVal(buffer) == IF Len(buffer) > 0 THEN buffer[Len(buffer)] ELSE DefaultValue

\* last_val + random.uniform(-2.5, 2.5) - (last_val - 50) * 0.1, in tenths
RandomWalk(last_val, u) == last_val + u - ((last_val - DefaultValue) \div 10)

\* max(0, min(120, new_val))
Clamp(v) == Max2(ClampLow, Min2(ClampHigh, v))

\* (mutation) a plain random step, neither pulled back to 50 nor clamped
NewValue_randomstep(last_val, u) == last_val + u

NewValue(last_val, u) == Clamp(RandomWalk(last_val, u))

\* the random draws of one tick, one per channel, each within [-2.5, 2.5]
Draws == { [s1 |-> -DrawMax, s2 |-> DrawMax, s3 |-> -7, s4 |-> 10] }

\* ------------------------------------------------------------------ paths
\* a pathname is the sequence of its characters
PathRoot == <<"/">>
SensorPrefix == <<"/", "s", "e", "n", "s", "o", "r", "-">>
PathSensor1 == SensorPrefix \o <<"1">>
PathSensor5 == SensorPrefix \o <<"5">>
PathSensorX == SensorPrefix \o <<"x">>
PathSensorX2 == SensorPrefix \o <<"x", "-", "2">>
PathOther == <<"/", "x">>
\* the pathnames the browser is sent to
Paths == {PathRoot, PathSensor1, PathSensor5, PathSensorX, PathSensorX2, PathOther}
\* no page requested yet (pathname is None)
NoPath == <<>>

Digits == <<"0", "1", "2", "3", "4", "5", "6", "7", "8", "9">>
DigitValue(c) == (CHOOSE i \in 1..10 : Digits[i] = c) - 1
IsDigit(c) == \E i \in 1..10 : Digits[i] = c

\* pathname.startswith(prefix)
StartsWith(p, prefix) ==
    Len(p) >= Len(prefix) /\ SubSeq(p, 1, Len(prefix)) = prefix

\* pathname.split('-')[-1]
LastSegment(p) ==
    LET dashes == {i \in 1..Len(p) : p[i] = "-"}
        from == IF dashes = {} THEN 1
                ELSE (CHOOSE i \in dashes : \A j \in dashes : j <= i) + 1
    IN  SubSeq(p, from, Len(p))

RECURSIVE DecimalValue(_)
DecimalValue(cs) ==
    IF cs = <<>> THEN 0
    ELSE 10 * DecimalValue(SubSeq(cs, 1, Len(cs) - 1)) + DigitValue(cs[Len(cs)])

\* int(text): ok is FALSE where Python raises ValueError
ParseInt(cs) ==
    IF cs # <<>> /\ \A i \in 1..Len(cs) : IsDigit(cs[i])
    THEN [ok |-> TRUE, val |-> DecimalValue(cs)]
    ELSE [ok |-> FALSE, val |-> 0]

\* ----------------------------------------------------------------- charts
NoRange == <<>>
\* no figure returned (no_update, or the callback did not run)
NoFigure == [title |-> -1, traces |-> <<>>, xaxis_range |-> NoRange, yaxis_range |-> NoRange]

\* create_base_figure(f'Sensor {i}'): title i (0 is the empty title)
create_base_figure(title) ==
    [title |-> title, traces |-> <<>>, xaxis_range |-> NoRange, yaxis_range |-> NoRange]

\* go.Scatter(x=, y=, mode=, marker=, line=)
Scatter(x, y, mode, marker, line) ==
    [x |-> x, y |-> y, mode |-> mode, marker |-> marker, line |-> line]

\* fig.add_trace
add_trace(fig, trace) == [fig EXCEPT !.traces = Append(@, trace)]

XKeys == {"xaxis.range[0]", "xaxis.range[1]"}
YKeys == {"yaxis.range[0]", "yaxis.range[1]"}
RangeKeys == XKeys \cup YKeys
\* the bounds a zoom/pan reports for each key
RangeValue == [k \in RangeKeys |->
                 CASE k = "xaxis.range[0]" -> 1
                   [] k = "xaxis.range[1]" -> 2
                   [] k = "yaxis.range[0]" -> 400
                   [] k = "yaxis.range[1]" -> 600]
\* relayoutData payloads: any subset of the four range keys
Payload(keys) == [k \in keys |-> RangeValue[k]]

\* (mutation) the x range is taken from the start of the captured range only
OverlayX_collapsed(fig, relayout_data) ==
    IF XKeys \subseteq DOMAIN relayout_data
    THEN [fig EXCEPT !.xaxis_range =
            <<relayout_data["xaxis.range[0]"], relayout_data["xaxis.range[0]"]>>]
    ELSE fig

\* web_dashboard_1.update_graphs, the x part of the overlay
OverlayX(fig, relayout_data) ==
    IF XKeys \subseteq DOMAIN relayout_data
    THEN [fig EXCEPT !.xaxis_range =
            <<relayout_data["xaxis.range[0]"], relayout_data["xaxis.range[1]"]>>]
    ELSE fig

\* (mutation) the y range is set only together with the x range
OverlayY_withx(fig, relayout_data) ==
    IF RangeKeys \subseteq DOMAIN relayout_data
    THEN [fig EXCEPT !.yaxis_range =
            <<relayout_data["yaxis.range[0]"], relayout_data["yaxis.range[1]"]>>]
    ELSE fig

\* web_dashboard_1.update_graphs, the y part of the overlay
OverlayY(fig, relayout_data) ==
    IF YKeys \subseteq DOMAIN relayout_data
    THEN [fig EXCEPT !.yaxis_range =
            <<relayout_data["yaxis.range[0]"], relayout_data["yaxis.range[1]"]>>]
    ELSE fig

\* (mutation) the overlay is applied whatever the capture state
ApplyOverlay1_always(fig, is_run, relayout_data) ==
    IF Truthy(relayout_data)
    THEN OverlayY(OverlayX(fig, relayout_data), relayout_data)
    ELSE fig

\* web_dashboard_1.update_graphs, the overlay of one figure
ApplyOverlay1(fig, is_run, relayout_data) ==
    IF ~is_run /\ Truthy(relayout_data)
    THEN OverlayY(OverlayX(fig, relayout_data), relayout_data)
    ELSE fig

\* web_dashboard_2.update_dashboard_graphs: the overlay raises KeyError when
\* both [0] keys are present and a [1] key is missing
Overlay2Raises(is_run, relayout_data) ==
    /\ ~is_run
    /\ Truthy(relayout_data)
    /\ {"xaxis.range[0]", "yaxis.range[0]"} \subseteq DOMAIN relayout_data
    /\ ~(RangeKeys \subseteq DOMAIN relayout_data)

ApplyOverlay2(fig, is_run, relayout_data) ==
    IF /\ ~is_run
       /\ Truthy(relayout_data)
       /\ {"xaxis.range[0]", "yaxis.range[0]"} \subseteq DOMAIN relayout_data
       /\ RangeKeys \subseteq DOMAIN relayout_data
    THEN [fig EXCEPT
            !.xaxis_range = <<relayout_data["xaxis.range[0]"], relayout_data["xaxis.range[1]"]>>,
            !.yaxis_range = <<relayout_data["yaxis.range[0]"], relayout_data["yaxis.range[1]"]>>]
    ELSE fig

\* mode / marker / line of a trace
TraceMode(show_markers) == IF show_markers THEN "lines+markers" ELSE "lines"
\* (mutation) the marker size is passed on whether markers are shown or not
MarkerDict_always(show_markers, size) == [size |-> size]

MarkerDict(show_markers, size) == IF show_markers THEN [size |-> size] ELSE EmptyDict
LineDict(shape) == [shape |-> shape, width |-> 2]

\* (mutation) off by one
StartIndex_offbyone(num_points, display_points) == Max2(0, num_points - display_points + 1)

\* start_index = max(0, num_points - display_points)
StartIndex(num_points, display_points) == Max2(0, num_points - display_points)

\* (mutation) the window is taken from the oldest end
WindowSlice_head(buffer, num_points, display_points) ==
    Islice(buffer, 0, Min2(Max2(0, display_points), num_points))

\* list(islice(buffer, start_index, num_points)) with num_points = len(time_data)
WindowSlice(buffer, num_points, display_points) ==
    Islice(buffer, StartIndex(num_points, display_points), num_points)

\* (mutation) the trace is added whatever the slice holds
SensorFigure_alwaystrace(title, x_slice, y_slice, show_markers, size, shape) ==
    add_trace(create_base_figure(title),
              Scatter(x_slice, y_slice, TraceMode(show_markers),
                      MarkerDict(show_markers, size), LineDict(shape)))

\* the figure of one sensor: base figure, the trace when x_slice is not empty
SensorFigure(title, x_slice, y_slice, show_markers, size, shape) ==
    LET fig == create_base_figure(title)
    IN  IF x_slice # <<>>
        THEN add_trace(fig, Scatter(x_slice, y_slice, TraceMode(show_markers),
                                    MarkerDict(show_markers, size), LineDict(shape)))
        ELSE fig

\* ------------------------------------------------------------------ state
VARIABLES
    variant,          \* 1: web_dashboard_1.py, 2: web_dashboard_2.py
    clock,            \* number of get_current_time() readings stamped so far
    time_data,        \* deque of timestamps
    sensor_data,      \* channel -> deque of values
    is_running,       \* ID_RUNNING_STORE
    settings,         \* ID_SETTINGS_STORE / ID_DASH_SETTINGS_STORE
    detail_settings,  \* ID_DETAIL_SETTINGS_STORE
    controls,         \* values of the four settings controls of the page shown
    relayout,         \* relayoutData of the four dashboard graphs
    figures,          \* figures returned by the last callback (NoFigures: none)
    pathname,         \* ID_URL pathname
    page,             \* ID_PAGE_CONTENT as rendered by display_page
    detail_figure,    \* figure of ID_DETAIL_GRAPH returned by the last callback, if any
    detail_extend,    \* extendData emitted by the last callback, if any
    status,           \* ID_STATUS_DIV children
    download,         \* ID_DOWNLOAD_DATA emitted by the last callback, if any
    last,             \* the event handled last
    gen_pc,           \* threaded server: appends generate_new_data has made (0: idle)
    exp_pc,           \* threaded server: columns export_data_as_csv has copied
    exp_cols,         \* threaded server: the columns copied so far
    zoom_age,         \* history: how the relayoutData of each dashboard graph came about
    surface,          \* the trace the browser holds for ID_DETAIL_GRAPH
    detail_relayout   \* relayoutData of ID_DETAIL_GRAPH

buffers == <<clock, time_data, sensor_data>>
stores == <<is_running, settings, detail_settings, controls>>
browser == <<relayout, status>>
route == <<pathname, page>>
\* what the callback handled last returned to the browser
outputs == <<figures, detail_figure, detail_extend, download>>
threads == <<gen_pc, exp_pc, exp_cols>>
vars == <<variant, buffers, stores, browser, route, outputs, last, threads, zoom_age, surface,
          detail_relayout>>

\* ---------------------------------------------------------- settings model
\* keys of the stores: web_dashboard_1 lines 477-480, web_dashboard_2 line 301
KeyPoints(v) == IF v = 1 THEN "display_points" ELSE "points"
KeyShape(v) == IF v = 1 THEN "line_shape" ELSE "shape"
KeyMarkers(v) == IF v = 1 THEN "show_markers" ELSE "markers"
KeySize(v) == IF v = 1 THEN "marker_size" ELSE "size"

\* (mutation) the marker size is stored only while markers are shown
SyncStore_sizewhenshown(v, c) ==
    LET size == IF c.markers = "on" THEN c.size ELSE DefaultMarkerSize
    IN  IF v = 1
        THEN [display_points |-> c.points, line_shape |-> c.shape,
              show_markers |-> c.markers, marker_size |-> size]
        ELSE [points |-> c.points, shape |-> c.shape, markers |-> c.markers, size |-> size]

\* sync_settings_to_store / sync_dash_settings_to_store / sync_detail_settings_to_store
SyncStore(v, c) ==
    IF v = 1
    THEN [display_points |-> c.points, line_shape |-> c.shape,
          show_markers |-> c.markers, marker_size |-> c.size]
    ELSE [points |-> c.points, shape |-> c.shape, markers |-> c.markers, size |-> c.size]

\* the control values a freshly created layout carries
DashControls1 == [points |-> DEFAULT_DISPLAY_POINTS, shape |-> "linear",
                  markers |-> "off", size |-> DefaultMarkerSize]
DashControls == [points |-> DEFAULT_DISPLAY_POINTS_DASH, shape |-> "linear",
                 markers |-> "off", size |-> DefaultMarkerSize]
DetailControls == [points |-> DEFAULT_DISPLAY_POINTS_DETAIL, shape |-> "spline",
                   markers |-> "off", size |-> DefaultMarkerSize]
NoControls == [points |-> 0, shape |-> "", markers |-> "", size |-> 0]

\* values the user can move each control to
DisplayPointsValues == 1..MAX_BUFFER_SIZE
ShapeValues == {"linear", "spline"}
MarkerValues == {"off", "on"}
MarkerSizeValues == {DefaultMarkerSize, 9}
\* the whole range of the marker size slider
MarkerSizeMin == 2
MarkerSizeMax == 12
MarkerSizeRange == MarkerSizeMin..MarkerSizeMax
ControlValues == [points |-> DisplayPointsValues, shape |-> ShapeValues,
                  markers |-> MarkerValues, size |-> MarkerSizeValues]
ControlNames == {"points", "shape", "markers", "size"}
\* the controls the user moves in Spec (the line shape is passed through to
\* the trace and decides nothing)
MovedControls == {"points", "markers", "size"}

\* --------------------------------------------------------------- handlers
\* generate_new_data: one timestamp, then one value per channel
\* (mutation) a full timestamp buffer gives up its newest entry
generate_time_dropnewest(td, now) ==
    IF Len(td) < MAX_BUFFER_SIZE THEN Append(td, now)
    ELSE [td EXCEPT ![Len(td)] = now]

generate_time(td, now) == DequeAppend(td, now)
\* (mutation) the loop misses the last channel
generate_sensors_skip(sd, draw) ==
    [name \in Channels |->
       IF name = "s4" THEN sd[name]
       ELSE DequeAppend(sd[name], NewValue(LastVal(sd[name]), draw[name]))]
generate_sensors(sd, draw) ==
    [name \in Channels |-> DequeAppend(sd[name], NewValue(LastVal(sd[name]), draw[name]))]

\* (mutation) the tick generates whatever the capture state
tick_time_always(is_run, td, now) == generate_time(td, now)

\* if is_running: generate_new_data()
tick_time(is_run, td, now) == IF is_run THEN generate_time(td, now) ELSE td
tick_sensors(is_run, sd, draw) == IF is_run THEN generate_sensors(sd, draw) ELSE sd

\* (mutation) the state is derived from the click count
toggle_running_state_parity(n_clicks, is_run) == n_clicks % 2 = 1

\* toggle_running_state(n_clicks, is_running)
toggle_running_state(n_clicks, is_run) == ~is_run

\* update_status_display
StatusExported == "Exported CSV"
StatusWaiting == "Waiting for data..."
StatusRunning == "Logging: RUNNING"
StatusPaused == "PAUSED - Zoom/Pan Enabled"
NoStatus == ""
update_status_display(is_run, td, by_export) ==
    IF by_export THEN StatusExported
    ELSE IF td = <<>> THEN StatusWaiting
    ELSE IF is_run THEN StatusRunning
    ELSE StatusPaused

\* export_data_as_csv: the DataFrame of the five columns, as rows
NoDownload == [header |-> <<>>, rows |-> <<>>]
ExportHeader == <<"timestamp", "s1", "s2", "s3", "s4">>
\* (mutation) the rows come out newest first
export_data_as_csv_newestfirst(td, sd) ==
    [header |-> ExportHeader,
     rows |-> [i \in 1..Len(td) |->
                 LET j == Len(td) + 1 - i
                 IN  <<td[j], sd["s1"][j], sd["s2"][j], sd["s3"][j], sd["s4"][j]>>]]

export_data_as_csv(td, sd) ==
    [header |-> ExportHeader,
     rows |-> [i \in 1..Len(td) |->
                 <<td[i], sd["s1"][i], sd["s2"][i], sd["s3"][i], sd["s4"][i]>>]]

\* pd.DataFrame(df_data) raises ValueError on columns of different lengths
ExportRaises(td, sd) == \E name \in Channels : Len(sd[name]) # Len(td)

\* the four figures of update_graphs (web_dashboard_1)
update_graphs_figures(is_run, st, td, sd, rl) ==
    LET display_points == Get(st, "display_points", DEFAULT_DISPLAY_POINTS)
        line_shape == Get(st, "line_shape", "linear")
        show_markers == Get(st, "show_markers", "off") = "on"
        marker_size == Get(st, "marker_size", DefaultMarkerSize)
        num_points == Len(td)
        x_slice == WindowSlice(td, num_points, display_points)
    IN  [i \in GraphIds |->
           ApplyOverlay1(
             SensorFigure(i, x_slice,
                          WindowSlice(sd[ChannelNames[i]], num_points, display_points),
                          show_markers, marker_size, line_shape),
             is_run, rl[i])]

\* the four figures of update_dashboard_graphs (web_dashboard_2)
update_dashboard_graphs_figures(is_run, st, td, sd, rl) ==
    LET points == Get(st, "points", DEFAULT_DISPLAY_POINTS_DASH)
        shape == Get(st, "shape", "linear")
        show_markers == Get(st, "markers", "off") = "on"
        size == Get(st, "size", DefaultMarkerSize)
        num_total == Len(td)
        x_slice == WindowSlice(td, num_total, points)
    IN  [i \in GraphIds |->
           ApplyOverlay2(
             SensorFigure(i, x_slice,
                          WindowSlice(sd[ChannelNames[i]], num_total, points),
                          show_markers, size, shape),
             is_run, rl[i])]

\* update_detail_graph_live, scenario 2: the full redraw
detail_redraw(st, td, sd, sensor_index) ==
    LET points == Get(st, "points", DEFAULT_DISPLAY_POINTS_DETAIL)
        shape == Get(st, "shape", "spline")
        show_markers == Get(st, "markers", "off") = "on"
        size == Get(st, "size", DefaultMarkerSize)
        num_total == Len(td)
    IN  SensorFigure(0, WindowSlice(td, num_total, points),
                     WindowSlice(sd[ChannelNames[sensor_index]], num_total, points),
                     show_markers, size, shape)

\* update_detail_graph_live, scenario 1: the extendData tuple
NoExtend == [x |-> <<>>, y |-> <<>>, trace_indices |-> <<>>, max_points |-> 0]
\* (mutation) the delta carries the oldest buffered sample
detail_delta_oldest(st, td, sd, sensor_index) ==
    [x |-> <<td[1]>>,
     y |-> <<sd[ChannelNames[sensor_index]][1]>>,
     trace_indices |-> <<0>>,
     max_points |-> Get(st, "points", DEFAULT_DISPLAY_POINTS_DETAIL)]

detail_delta(st, td, sd, sensor_index) ==
    [x |-> <<td[Len(td)]>>,
     y |-> <<sd[ChannelNames[sensor_index]][Len(sd[ChannelNames[sensor_index]])]>>,
     trace_indices |-> <<0>>,
     max_points |-> Get(st, "points", DEFAULT_DISPLAY_POINTS_DETAIL)]

\* display_page: the layout returned for a pathname
PageNone == [kind |-> "none", sensor |-> 0]
PageDashboard == [kind |-> "dashboard", sensor |-> 0]
PageNotFound == [kind |-> "notfound", sensor |-> 0]
PageDetail(i) == [kind |-> "detail", sensor |-> i]
display_page(p) ==
    LET parsed == ParseInt(LastSegment(p))
    IN  IF p # NoPath /\ StartsWith(p, SensorPrefix) /\ parsed.ok
           /\ 1 <= parsed.val /\ parsed.val <= 4
        THEN PageDetail(parsed.val)
        ELSE IF p = PathRoot THEN PageDashboard
        ELSE PageNotFound

NoFigures == [i \in GraphIds |-> NoFigure]
NoRelayout == [i \in GraphIds |-> EmptyDict]

\* x and y of the one trace of a figure (empty when it has no trace)
FigX(fig) == IF fig.traces = <<>> THEN <<>> ELSE fig.traces[1].x
FigY(fig) == IF fig.traces = <<>> THEN <<>> ELSE fig.traces[1].y

\* the browser's ID_DETAIL_GRAPH: a figure output replaces what it shows; an
\* extendData output appends to trace 0 and keeps the last max_points points
\* (there is nothing to extend when the figure has no trace)
NoSurface == [x |-> <<>>, y |-> <<>>]
SurfaceOf(fig) == [x |-> FigX(fig), y |-> FigY(fig)]
LastPoints(q, n) == IF Len(q) > n THEN SubSeq(q, Len(q) - n + 1, Len(q)) ELSE q
ExtendSurface(s, ext) ==
    IF s.x = <<>> \/ ext.trace_indices = <<>> THEN s
    ELSE [x |-> LastPoints(s.x \o ext.x, ext.max_points),
          y |-> LastPoints(s.y \o ext.y, ext.max_points)]

\* (mutation) the delta is emitted on a tick whatever the capture state
DeltaPath_anystate(by_interval, is_run, td) == by_interval /\ td # <<>>

\* update_detail_graph_live, line 366: the condition of scenario 1
DeltaPath(by_interval, is_run, td) == by_interval /\ is_run /\ td # <<>>

\* sensor_data[sensor_name][-1] raises IndexError on an empty deque
DeltaRaises(sd, sensor_index) == sd[ChannelNames[sensor_index]] = <<>>

\* update_detail_graph_live: the (figure, extendData) pair it returns, NoFigure
\* / NoExtend standing for no_update; err tells that it raised instead
update_detail_graph_live(by_interval, st, p, is_run, td, sd) ==
    LET parsed == ParseInt(LastSegment(p))
    IN  IF ~parsed.ok
        THEN [figure |-> NoFigure, extend |-> NoExtend, err |-> FALSE]
        ELSE IF DeltaPath(by_interval, is_run, td)
        THEN IF DeltaRaises(sd, parsed.val)
             THEN [figure |-> NoFigure, extend |-> NoExtend, err |-> TRUE]
             ELSE [figure |-> NoFigure, extend |-> detail_delta(st, td, sd, parsed.val),
                   err |-> FALSE]
        ELSE [figure |-> detail_redraw(st, td, sd, parsed.val), extend |-> NoExtend,
              err |-> FALSE]

\* what ID_DETAIL_GRAPH shows once the pair r has reached the browser
ShowOnSurface(s, r) ==
    IF r.figure # NoFigure THEN SurfaceOf(r.figure)
    ELSE IF r.extend # NoExtend THEN ExtendSurface(s, r.extend)
    ELSE s

\* history of the relayoutData a dashboard graph holds: "none" nothing
\* captured, "paused" / "running" captured by a zoom while capture was paused
\* / running, "dropped" captured while paused and a chart rendered since
\* while running
NoZoomAge == [i \in GraphIds |-> "none"]
AgeOnZoom(is_run) == IF is_run THEN "running" ELSE "paused"
AgeOnRender(is_run, age) ==
    [i \in GraphIds |-> IF is_run /\ age[i] = "paused" THEN "dropped" ELSE age[i]]

\* ------------------------------------------------------------------- Init
Init ==
    /\ variant \in {1, 2}
    /\ clock = 0
    /\ time_data = <<>>
    /\ sensor_data = [name \in Channels |-> <<>>]
    /\ is_running = FALSE
    /\ settings = IF variant = 1 THEN SyncStore(1, DashControls1) ELSE EmptyDict
    /\ detail_settings = EmptyDict
    /\ controls = IF variant = 1 THEN DashControls1 ELSE NoControls
    /\ relayout = NoRelayout
    /\ figures = NoFigures
    /\ pathname = NoPath
    /\ page = PageNone
    /\ detail_figure = NoFigure
    /\ detail_extend = NoExtend
    /\ status = NoStatus
    /\ download = NoDownload
    /\ last = [op |-> "init", err |-> FALSE, control |-> ""]
    /\ gen_pc = 0
    /\ exp_pc = 0
    /\ exp_cols = <<>>
    /\ zoom_age = NoZoomAge
    /\ surface = NoSurface
    /\ detail_relayout = EmptyDict

\* ---------------------------------------------------------------- actions
Event(op) == [op |-> op, err |-> FALSE, control |-> ""]
Failed(op) == [op |-> op, err |-> TRUE, control |-> ""]
\* a settings event names the control the user moved
SettingsEvent(name) == [op |-> "settings", err |-> FALSE, control |-> name]

\* web_dashboard_1: the browser loads the one page; the callbacks without
\* prevent_initial_call make their initial call (capture is paused)
Load1 ==
    /\ variant = 1
    /\ pathname = NoPath
    /\ pathname' = PathRoot
    /\ page' = PageDashboard
    /\ figures' = update_graphs_figures(is_running, settings, time_data, sensor_data, relayout)
    /\ status' = update_status_display(is_running, time_data, FALSE)
    /\ detail_figure' = NoFigure
    /\ detail_extend' = NoExtend
    /\ download' = NoDownload
    /\ last' = Event("load")
    /\ UNCHANGED <<variant, threads, buffers, stores, relayout, zoom_age, surface, detail_relayout>>

\* web_dashboard_1.update_graphs on an interval tick
Tick1(draw) ==
    /\ variant = 1
    /\ page = PageDashboard
    /\ is_running => clock < MaxClock
    /\ LET td == tick_time(is_running, time_data, clock + 1)
           sd == tick_sensors(is_running, sensor_data, draw)
       IN  /\ clock' = IF is_running THEN clock + 1 ELSE clock
           /\ time_data' = td
           /\ sensor_data' = sd
           /\ figures' = update_graphs_figures(is_running, settings, td, sd, relayout)
    /\ detail_figure' = NoFigure
    /\ detail_extend' = NoExtend
    /\ download' = NoDownload
    /\ last' = Event("tick")
    /\ zoom_age' = AgeOnRender(is_running, zoom_age)
    /\ UNCHANGED <<variant, threads, stores, browser, route, surface, detail_relayout>>

\* web_dashboard_2.update_dashboard_graphs on an interval tick (overview
\* shown); a KeyError in the overlay leaves the callback without a result
Tick2Dashboard(draw) ==
    /\ variant = 2
    /\ page = PageDashboard
    /\ is_running => clock < MaxClock
    /\ LET td == tick_time(is_running, time_data, clock + 1)
           sd == tick_sensors(is_running, sensor_data, draw)
           raises == \E i \in GraphIds : Overlay2Raises(is_running, relayout[i])
       IN  /\ clock' = IF is_running THEN clock + 1 ELSE clock
           /\ time_data' = td
           /\ sensor_data' = sd
           /\ figures' = IF raises THEN NoFigures
                         ELSE update_dashboard_graphs_figures(is_running, settings, td, sd, relayout)
           /\ last' = IF raises THEN Failed("tick") ELSE Event("tick")
    /\ detail_figure' = NoFigure
    /\ detail_extend' = NoExtend
    /\ download' = NoDownload
    /\ zoom_age' = AgeOnRender(is_running, zoom_age)
    /\ UNCHANGED <<variant, threads, stores, browser, route, surface, detail_relayout>>

\* web_dashboard_2.update_detail_graph_live on an interval tick (detail shown);
\* update_dashboard_graphs has no output in the layout and is not called
Tick2Detail ==
    /\ variant = 2
    /\ page.kind = "detail"
    /\ LET r == update_detail_graph_live(TRUE, detail_settings, pathname, is_running,
                                         time_data, sensor_data)
       IN  /\ detail_figure' = r.figure
           /\ detail_extend' = r.extend
           /\ surface' = ShowOnSurface(surface, r)
           /\ last' = IF r.err THEN Failed("tick") ELSE Event("tick")
    /\ figures' = NoFigures
    /\ download' = NoDownload
    /\ UNCHANGED <<variant, threads, buffers, stores, browser, route, zoom_age, detail_relayout>>

\* web_dashboard_2 on an interval tick while the 404 page is shown: no
\* callback has its outputs in the layout
Tick2NotFound ==
    /\ variant = 2
    /\ page = PageNotFound
    /\ figures' = NoFigures
    /\ detail_figure' = NoFigure
    /\ detail_extend' = NoExtend
    /\ download' = NoDownload
    /\ last' = Event("tick")
    /\ UNCHANGED <<variant, threads, buffers, stores, browser, route, zoom_age, surface, detail_relayout>>

\* toggle_running_state on a click, then update_status_display on the store
Toggle ==
    /\ page = PageDashboard
    /\ \E n_clicks \in 1..MaxClicks : is_running' = toggle_running_state(n_clicks, is_running)
    /\ status' = update_status_display(is_running', time_data, FALSE)
    /\ figures' = NoFigures
    /\ detail_figure' = NoFigure
    /\ detail_extend' = NoExtend
    /\ download' = NoDownload
    /\ last' = Event("toggle")
    /\ UNCHANGED <<variant, threads, buffers, settings, detail_settings, controls, relayout, route, zoom_age, surface, detail_relayout>>

\* export_data_as_csv on a click, then update_status_display on the click
Export ==
    /\ page = PageDashboard
    /\ download' = IF ExportRaises(time_data, sensor_data) THEN NoDownload
                    ELSE export_data_as_csv(time_data, sensor_data)
    /\ status' = update_status_display(is_running, time_data, TRUE)
    /\ figures' = NoFigures
    /\ detail_figure' = NoFigure
    /\ detail_extend' = NoExtend
    /\ last' = IF ExportRaises(time_data, sensor_data) THEN Failed("export") ELSE Event("export")
    /\ UNCHANGED <<variant, threads, buffers, stores, relayout, route, zoom_age, surface, detail_relayout>>

\* (mutation) every control change is written to the dashboard store
DashStoreAfter_anypage(v, kind, st, c) == SyncStore(v, c)

\* the dashboard settings store after a control of the page shown changed: its
\* sync callback has the dashboard controls as its only inputs
DashStoreAfter(v, kind, st, c) == IF kind = "dashboard" THEN SyncStore(v, c) ELSE st

\* the detail settings store likewise, its inputs being the detail controls
DetailStoreAfter(v, kind, st, c) == IF kind = "detail" THEN SyncStore(v, c) ELSE st

\* the user moves one control; the sync_*_settings_to_store callback of the
\* page re-submits all four values; on a detail page the store then triggers
\* update_detail_graph_live (triggered_id is the store: full redraw)
SetControl(name, val) ==
    /\ page.kind \in {"dashboard", "detail"}
    /\ val # controls[name]
    /\ name = "size" => controls.markers = "on"
    /\ controls' = [controls EXCEPT ![name] = val]
    /\ settings' = DashStoreAfter(variant, page.kind, settings, controls')
    /\ detail_settings' = DetailStoreAfter(variant, page.kind, detail_settings, controls')
    /\ IF page.kind = "dashboard"
       THEN /\ detail_figure' = NoFigure
            /\ detail_extend' = NoExtend
            /\ UNCHANGED surface
       ELSE LET r == update_detail_graph_live(FALSE, detail_settings', pathname, is_running,
                                              time_data, sensor_data)
            IN  /\ detail_figure' = r.figure
                /\ detail_extend' = r.extend
                /\ surface' = ShowOnSurface(surface, r)
    /\ figures' = NoFigures
    /\ download' = NoDownload
    /\ last' = SettingsEvent(name)
    /\ UNCHANGED <<variant, threads, buffers, is_running, browser, route, zoom_age, detail_relayout>>

\* the user zooms or pans dashboard graph g: its relayoutData becomes the payload
ZoomGraphs == {2}
ZoomKeySets == {XKeys, RangeKeys, {"xaxis.range[0]", "yaxis.range[0]", "yaxis.range[1]"}}
UserRelayout(g, keys) ==
    /\ page = PageDashboard
    /\ Payload(keys) # relayout[g]
    /\ relayout' = [relayout EXCEPT ![g] = Payload(keys)]
    /\ zoom_age' = [zoom_age EXCEPT ![g] = AgeOnZoom(is_running)]
    /\ figures' = NoFigures
    /\ detail_figure' = NoFigure
    /\ detail_extend' = NoExtend
    /\ download' = NoDownload
    /\ last' = Event("relayout")
    /\ UNCHANGED <<variant, threads, buffers, stores, status, route, surface, detail_relayout>>

\* the user zooms or pans the graph of a detail page
DetailZoomKeySets == {XKeys, RangeKeys}
UserRelayoutDetail(keys) ==
    /\ variant = 2
    /\ page.kind = "detail"
    /\ Payload(keys) # detail_relayout
    /\ detail_relayout' = Payload(keys)
    /\ figures' = NoFigures
    /\ detail_figure' = NoFigure
    /\ detail_extend' = NoExtend
    /\ download' = NoDownload
    /\ last' = Event("relayout")
    /\ UNCHANGED <<variant, threads, buffers, stores, browser, route, zoom_age, surface>>

\* web_dashboard_2: the pathname changes and display_page replaces the page
\* content.  Callbacks with an input in the inserted layout and their output
\* outside it are called although prevent_initial_call is set
\* (toggle_running_state, export_data_as_csv), as are the callbacks with an
\* output in the inserted layout.  The State values of the first round of
\* calls are those held before any of them returns.
Navigate(p, draw) ==
    /\ variant = 2
    /\ p # pathname
    /\ pathname' = p
    /\ page' = display_page(p)
    /\ relayout' = NoRelayout
    /\ zoom_age' = NoZoomAge
    /\ IF page' = PageDashboard
       THEN \* toggle_running_state, sync_dash_settings_to_store,
            \* export_data_as_csv, update_dashboard_graphs, update_status_display
            /\ is_running => clock < MaxClock
            /\ is_running' = toggle_running_state(0, is_running)
            /\ LET td == tick_time(is_running, time_data, clock + 1)
                   sd == tick_sensors(is_running, sensor_data, draw)
               IN  /\ clock' = IF is_running THEN clock + 1 ELSE clock
                   /\ time_data' = td
                   /\ sensor_data' = sd
                   /\ figures' = update_dashboard_graphs_figures(is_running, settings, td, sd, NoRelayout)
                   /\ status' = update_status_display(is_running', td, FALSE)
            /\ controls' = DashControls
            /\ settings' = SyncStore(2, DashControls)
            /\ download' = IF ExportRaises(time_data, sensor_data) THEN NoDownload
                            ELSE export_data_as_csv(time_data, sensor_data)
            /\ detail_figure' = NoFigure
            /\ detail_extend' = NoExtend
            /\ surface' = NoSurface
            /\ UNCHANGED detail_settings
       ELSE IF page'.kind = "detail"
       THEN \* sync_detail_settings_to_store, then update_detail_graph_live
            /\ controls' = DetailControls
            /\ detail_settings' = SyncStore(2, DetailControls)
            /\ LET r == update_detail_graph_live(FALSE, detail_settings', p, is_running,
                                                 time_data, sensor_data)
               IN  /\ detail_figure' = r.figure
                   /\ detail_extend' = r.extend
                   /\ surface' = ShowOnSurface(NoSurface, r)
            /\ figures' = NoFigures
            /\ status' = NoStatus
            /\ download' = NoDownload
            /\ UNCHANGED <<buffers, is_running, settings>>
       ELSE /\ controls' = NoControls
            /\ surface' = NoSurface
            /\ figures' = NoFigures
            /\ status' = NoStatus
            /\ detail_figure' = NoFigure
            /\ detail_extend' = NoExtend
            /\ download' = NoDownload
            /\ UNCHANGED <<buffers, is_running, settings, detail_settings>>
    /\ detail_relayout' = EmptyDict
    /\ last' = Event("navigate")
    /\ UNCHANGED <<variant, threads>>

Next ==
    \/ Load1
    \/ \E draw \in Draws : Tick1(draw)
    \/ \E draw \in Draws : Tick2Dashboard(draw)
    \/ Tick2Detail
    \/ Tick2NotFound
    \/ Toggle
    \/ Export
    \/ \E name \in MovedControls : \E val \in ControlValues[name] : SetControl(name, val)
    \/ \E g \in ZoomGraphs : \E keys \in ZoomKeySets : UserRelayout(g, keys)
    \/ \E keys \in DetailZoomKeySets : UserRelayoutDetail(keys)
    \/ \E p \in Paths : \E draw \in Draws : Navigate(p, draw)

Spec == Init /\ [][Next]_vars

\* ------------------------------------------------- the threaded server
\* app.run serves each callback request on its own thread: an export can run
\* between any two appends of generate_new_data.  Each deque.append and each
\* list(deque) is one step.
InitConc ==
    /\ variant = 1
    /\ clock = 0
    /\ time_data = <<>>
    /\ sensor_data = [name \in Channels |-> <<>>]
    /\ is_running = TRUE
    /\ settings = SyncStore(1, DashControls1)
    /\ detail_settings = EmptyDict
    /\ controls = DashControls1
    /\ relayout = NoRelayout
    /\ figures = NoFigures
    /\ pathname = PathRoot
    /\ page = PageDashboard
    /\ detail_figure = NoFigure
    /\ detail_extend = NoExtend
    /\ status = StatusWaiting
    /\ download = NoDownload
    /\ last = Event("toggle")
    /\ gen_pc = 0
    /\ exp_pc = 0
    /\ exp_cols = <<>>
    /\ zoom_age = NoZoomAge
    /\ surface = NoSurface
    /\ detail_relayout = EmptyDict

\* update_graphs, running: time_data.append(current_time)
GenTime ==
    /\ gen_pc = 0
    /\ is_running
    /\ clock < MaxClock
    /\ clock' = clock + 1
    /\ time_data' = generate_time(time_data, clock + 1)
    /\ gen_pc' = 1
    /\ UNCHANGED <<variant, sensor_data, stores, browser, route, outputs, last, exp_pc, exp_cols, zoom_age, surface, detail_relayout>>

\* generate_new_data: sensor_data[name].append(...) for the next channel; after
\* the last one update_graphs builds its figures
GenChannel(draw) ==
    /\ gen_pc \in 1..4
    /\ LET name == ChannelNames[gen_pc]
       IN  sensor_data' = [sensor_data EXCEPT
                             ![name] = DequeAppend(@, NewValue(LastVal(@), draw[name]))]
    /\ IF gen_pc = 4
       THEN /\ gen_pc' = 0
            /\ figures' = update_graphs_figures(is_running, settings, time_data, sensor_data', relayout)
            /\ last' = Event("tick")
       ELSE /\ gen_pc' = gen_pc + 1
            /\ UNCHANGED <<figures, last>>
    /\ UNCHANGED <<variant, clock, time_data, stores, browser, route,
                   detail_figure, detail_extend, download, exp_pc, exp_cols, zoom_age, surface, detail_relayout>>

\* export_data_as_csv: list(time_data), then list(buffer) for s1..s4
ExportColumn ==
    /\ exp_pc \in 0..4
    /\ exp_cols' = Append(exp_cols, IF exp_pc = 0 THEN time_data
                                    ELSE sensor_data[ChannelNames[exp_pc]])
    /\ exp_pc' = exp_pc + 1
    /\ UNCHANGED <<variant, buffers, stores, browser, route, outputs, last, gen_pc, zoom_age, surface, detail_relayout>>

\* pd.DataFrame(df_data) raises ValueError on columns of different lengths
ColumnsTable(cols) ==
    [header |-> ExportHeader,
     rows |-> [i \in 1..Len(cols[1]) |-> <<cols[1][i], cols[2][i], cols[3][i], cols[4][i], cols[5][i]>>]]
ExportFinish ==
    /\ exp_pc = 5
    /\ IF \A k \in 2..5 : Len(exp_cols[k]) = Len(exp_cols[1])
       THEN /\ download' = ColumnsTable(exp_cols)
            /\ status' = update_status_display(is_running, time_data, TRUE)
            /\ last' = Event("export")
       ELSE /\ download' = NoDownload
            /\ last' = Failed("export")
            /\ UNCHANGED status
    /\ exp_pc' = 0
    /\ exp_cols' = <<>>
    /\ UNCHANGED <<variant, buffers, stores, relayout, route,
                   figures, detail_figure, detail_extend, gen_pc, zoom_age, surface, detail_relayout>>

NextConc ==
    \/ GenTime
    \/ \E draw \in Draws : GenChannel(draw)
    \/ ExportColumn
    \/ ExportFinish

SpecConc == InitConc /\ [][NextConc]_vars

\* ------------------------------------------------- the window, all inputs
\* display_points values handed to the settings store, in and out of the
\* range of the slider
WindowPoints == -1..(MAX_BUFFER_SIZE + 1)

\* the value the k-th append gives channel name
TheDraw == CHOOSE d \in Draws : TRUE
RECURSIVE SampleValue(_, _)
SampleValue(name, k) ==
    IF k = 0 THEN DefaultValue ELSE NewValue(SampleValue(name, k - 1), TheDraw[name])

\* the buffers after n appends
TimeBufferAfter(n) ==
    LET m == Min2(n, MAX_BUFFER_SIZE) IN [i \in 1..m |-> n - m + i]
SensorBufferAfter(name, n) ==
    LET m == Min2(n, MAX_BUFFER_SIZE) IN [i \in 1..m |-> SampleValue(name, n - m + i)]

\* a dashboard is shown, paused, after n appends, its store holding any
\* display_points value
InitWindow ==
    /\ variant \in {1, 2}
    /\ clock \in 0..(MaxClock - 1)
    /\ time_data = TimeBufferAfter(clock)
    /\ sensor_data = [name \in Channels |-> SensorBufferAfter(name, clock)]
    /\ is_running = FALSE
    /\ \E d \in WindowPoints :
          /\ controls = [DashControls EXCEPT !.points = d]
          /\ settings = SyncStore(variant, controls)
    /\ detail_settings = EmptyDict
    /\ relayout = NoRelayout
    /\ figures = NoFigures
    /\ pathname = PathRoot
    /\ page = PageDashboard
    /\ detail_figure = NoFigure
    /\ detail_extend = NoExtend
    /\ status = StatusPaused
    /\ download = NoDownload
    /\ last = Event("settings")
    /\ gen_pc = 0
    /\ exp_pc = 0
    /\ exp_cols = <<>>
    /\ zoom_age = NoZoomAge
    /\ surface = NoSurface
    /\ detail_relayout = EmptyDict

NextWindow ==
    \/ \E draw \in Draws : Tick1(draw)
    \/ \E draw \in Draws : Tick2Dashboard(draw)
    \/ Toggle

SpecWindow == InitWindow /\ [][NextWindow]_vars

\* ------------------------------------------------ the overlay, all inputs
\* relayoutData payloads with every subset of the four range keys
OverlayKeySets == SUBSET RangeKeys

\* a dashboard is shown, paused, after n appends, its graph 2 holding any
\* payload the user's zooming left there
InitOverlay ==
    /\ variant \in {1, 2}
    /\ clock \in 0..(MaxClock - 1)
    /\ time_data = TimeBufferAfter(clock)
    /\ sensor_data = [name \in Channels |-> SensorBufferAfter(name, clock)]
    /\ is_running = FALSE
    /\ controls = IF variant = 1 THEN DashControls1 ELSE DashControls
    /\ settings = SyncStore(variant, controls)
    /\ detail_settings = EmptyDict
    /\ \E keys \in OverlayKeySets :
          /\ relayout = [NoRelayout EXCEPT ![2] = Payload(keys)]
          /\ zoom_age = [NoZoomAge EXCEPT ![2] = IF keys = {} THEN "none" ELSE AgeOnZoom(FALSE)]
    /\ figures = NoFigures
    /\ pathname = PathRoot
    /\ page = PageDashboard
    /\ detail_figure = NoFigure
    /\ detail_extend = NoExtend
    /\ status = StatusPaused
    /\ download = NoDownload
    /\ last = Event("relayout")
    /\ gen_pc = 0
    /\ exp_pc = 0
    /\ exp_cols = <<>>
    /\ surface = NoSurface
    /\ detail_relayout = EmptyDict

NextOverlay ==
    \/ \E draw \in Draws : Tick1(draw)
    \/ \E draw \in Draws : Tick2Dashboard(draw)
    \/ Toggle

SpecOverlay == InitOverlay /\ [][NextOverlay]_vars

\* ------------------------------------------- the settings, every control
\* the multi-page dashboard with each of the four controls of a page moved,
\* the line shape included, on the overview and on a detail page
SettingsPaths == {PathRoot, PathSensor1}
InitSettings ==
    /\ Init
    /\ variant = 2

NextSettings ==
    \/ \E name \in ControlNames : \E val \in ControlValues[name] : SetControl(name, val)
    \/ \E p \in SettingsPaths : \E draw \in Draws : Navigate(p, draw)

SpecSettings == InitSettings /\ [][NextSettings]_vars

\* ------------------------------------------ the marker size, every value
\* the single-page dashboard with its settings controls moved, the marker
\* size over the whole range of its slider
InitMarkers ==
    /\ Init
    /\ variant = 1

NextMarkers ==
    \/ Load1
    \/ \E name \in ControlNames \ {"size"} : \E val \in ControlValues[name] : SetControl(name, val)
    \/ \E val \in MarkerSizeRange : SetControl("size", val)

SpecMarkers == InitMarkers /\ [][NextMarkers]_vars

\* --------------------------------------------- the generator, all inputs
\* every last value of [0, 120] and every draw of [-2.5, 2.5], in tenths
LastValues == ClampLow..ClampHigh
AllDraws == { [s1 |-> u, s2 |-> -u, s3 |-> u, s4 |-> -u] : u \in (-DrawMax)..DrawMax }

\* the single-page dashboard, running, every channel holding one sample; one
\* more tick is taken
InitGenerator ==
    /\ variant = 1
    /\ clock = MaxClock - 1
    /\ time_data = <<clock>>
    /\ \E v \in LastValues : sensor_data = [name \in Channels |-> <<v>>]
    /\ is_running = TRUE
    /\ controls = DashControls1
    /\ settings = SyncStore(1, DashControls1)
    /\ detail_settings = EmptyDict
    /\ relayout = NoRelayout
    /\ zoom_age = NoZoomAge
    /\ figures = NoFigures
    /\ pathname = PathRoot
    /\ page = PageDashboard
    /\ detail_figure = NoFigure
    /\ detail_extend = NoExtend
    /\ status = StatusRunning
    /\ download = NoDownload
    /\ last = Event("toggle")
    /\ gen_pc = 0
    /\ exp_pc = 0
    /\ exp_cols = <<>>
    /\ surface = NoSurface
    /\ detail_relayout = EmptyDict

NextGenerator == \E draw \in AllDraws : Tick1(draw)

SpecGenerator == InitGenerator /\ [][NextGenerator]_vars

\* ------------------------------------------ chart assembly, all settings
\* a page that renders charts is shown, paused, after n appends, its store
\* holding any combination of the four settings: the single-page dashboard, or
\* the detail page of sensor 1
InitAssembly ==
    /\ variant \in {1, 2}
    /\ clock \in 0..(MaxClock - 1)
    /\ time_data = TimeBufferAfter(clock)
    /\ sensor_data = [name \in Channels |-> SensorBufferAfter(name, clock)]
    /\ is_running = FALSE
    /\ \E d \in DisplayPointsValues, shape \in ShapeValues,
          markers \in MarkerValues, size \in MarkerSizeRange :
          controls = [points |-> d, shape |-> shape, markers |-> markers, size |-> size]
    /\ settings = IF variant = 1 THEN SyncStore(1, controls) ELSE SyncStore(2, DashControls)
    /\ detail_settings = IF variant = 1 THEN EmptyDict ELSE SyncStore(2, controls)
    /\ relayout = NoRelayout
    /\ zoom_age = NoZoomAge
    /\ figures = NoFigures
    /\ pathname = IF variant = 1 THEN PathRoot ELSE PathSensor1
    /\ page = IF variant = 1 THEN PageDashboard ELSE PageDetail(1)
    /\ detail_figure = NoFigure
    /\ detail_extend = NoExtend
    /\ status = IF variant = 1 THEN StatusPaused ELSE NoStatus
    /\ download = NoDownload
    /\ last = SettingsEvent("size")
    /\ gen_pc = 0
    /\ exp_pc = 0
    /\ exp_cols = <<>>
    /\ surface = NoSurface
    /\ detail_relayout = EmptyDict

NextAssembly ==
    \/ \E draw \in Draws : Tick1(draw)
    \/ Tick2Detail

SpecAssembly == InitAssembly /\ [][NextAssembly]_vars

\* ================================================================ claims
\* display_points as the dashboard callback reads it from its store
StoredPoints ==
    Get(settings, KeyPoints(variant),
        IF variant = 1 THEN DEFAULT_DISPLAY_POINTS ELSE DEFAULT_DISPLAY_POINTS_DASH)
\* entries [max(0, L - d), L) of a buffer of length L
ExpectedWindow(buf, d) ==
    LET lo == IF Len(buf) - d > 0 THEN Len(buf) - d ELSE 0
    IN  [j \in 1..(Len(buf) - lo) |-> buf[lo + j]]

\* C1: in every state reached by ticks, toggles, settings changes, exports
\* and navigations, the timestamp buffer and the four channel buffers have
\* the same length.
C1_ParallelLengths ==
    \A name \in Channels : Len(sensor_data[name]) = Len(time_data)
C1_Witness ==
    /\ last.op = "export"
    /\ Len(time_data) = MAX_BUFFER_SIZE
    /\ is_running

\* C2: no buffer is ever longer than the capacity, and once more than
\* MAX_BUFFER_SIZE samples were appended every buffer holds exactly the
\* MAX_BUFFER_SIZE most recent ones, oldest first.
C2_Capacity ==
    /\ Len(time_data) <= MAX_BUFFER_SIZE
    /\ \A name \in Channels : Len(sensor_data[name]) <= MAX_BUFFER_SIZE
    /\ clock > MAX_BUFFER_SIZE =>
         /\ time_data = [i \in 1..MAX_BUFFER_SIZE |-> clock - MAX_BUFFER_SIZE + i]
         /\ \A name \in Channels :
              sensor_data[name] =
                [i \in 1..MAX_BUFFER_SIZE |-> SampleValue(name, clock - MAX_BUFFER_SIZE + i)]
C2_Witness ==
    /\ clock > MAX_BUFFER_SIZE
    /\ last.op = "tick"

\* C3: an export that runs while a tick is appending never assembles a torn
\* snapshot: its five columns have one length and row i holds the timestamp
\* and the four values of one and the same tick.
C3_NoTornRead ==
    exp_pc = 5 =>
      /\ \A k \in 2..5 : Len(exp_cols[k]) = Len(exp_cols[1])
      /\ \A k \in 2..5 : \A i \in 1..Len(exp_cols[1]) :
           i <= Len(exp_cols[k]) =>
             exp_cols[k][i] = SampleValue(ChannelNames[k - 1], exp_cols[1][i])

\* C4: capture is paused initially; a click on the toggle button is accepted
\* whenever the button is shown and flips the state, whatever the buffers,
\* the settings and the click count.
C4_ToggleFlips ==
    /\ is_running = FALSE
    /\ [][last'.op = "toggle" => is_running' = ~is_running]_vars
    /\ [](page = PageDashboard => ENABLED Toggle)
C4_Witness ==
    /\ variant = 1
    /\ last.op = "toggle"
    /\ ~is_running
    /\ time_data # <<>>
    /\ controls.markers = "on"

\* C5: in the multi-page variant the capture state changes only on a user
\* click of the toggle button, never on a tick, a settings change, an export
\* or a page render.
C5_OnlyToggleChangesState ==
    [][(variant = 2 /\ is_running' # is_running) => last'.op = "toggle"]_vars

\* C6: while capture is running every tick appends exactly one sample to
\* every buffer, whichever page is shown: the single page, the overview or a
\* sensor detail page.
C6_RunningTickAppends ==
    [][(last'.op = "tick" /\ is_running /\ page.kind \in {"dashboard", "detail"}) =>
          /\ clock' = clock + 1
          /\ time_data' = DequeAppend(time_data, clock')
          /\ \A name \in Channels :
               sensor_data'[name] =
                 DequeAppend(sensor_data[name], sensor_data'[name][Len(sensor_data'[name])])]_vars

\* C7: while capture is paused a tick leaves the timestamp buffer and every
\* channel buffer as they were.
C7_PausedTickKeepsBuffers ==
    [][(last'.op = "tick" /\ ~is_running) => UNCHANGED <<time_data, sensor_data>>]_vars
C7_Witness ==
    /\ variant = 2
    /\ page = PageDashboard
    /\ last.op = "tick"
    /\ ~is_running
    /\ time_data # <<>>

\* C8: for every buffered length and every display_points value d, zero and
\* negative and larger than the length included, the x and y of every chart a
\* tick renders are the buffer entries [max(0, L - d), L) in order.
C8_WindowSlice ==
    (last.op = "tick" /\ ~last.err) =>
      \A i \in GraphIds :
        /\ FigX(figures[i]) = ExpectedWindow(time_data, StoredPoints)
        /\ FigY(figures[i]) = ExpectedWindow(sensor_data[ChannelNames[i]], StoredPoints)
C8_Witness ==
    /\ last.op = "tick"
    /\ StoredPoints <= 0
    /\ Len(time_data) = MAX_BUFFER_SIZE
    /\ figures[1] = create_base_figure(1)

\* C9: single page, capture running: the chart rendered by the tick that
\* appends sample k with display_points = d shows exactly min(k, d, C)
\* timestamps, the most recent ones in order, ending with sample k.
C9_SteadyCapture ==
    (variant = 1 /\ last.op = "tick" /\ is_running) =>
      LET m == Min2(clock, Min2(StoredPoints, MAX_BUFFER_SIZE))
      IN  \A i \in GraphIds : FigX(figures[i]) = [j \in 1..m |-> clock - m + j]
C9_Witness ==
    /\ variant = 1
    /\ last.op = "tick"
    /\ is_running
    /\ clock > MAX_BUFFER_SIZE
    /\ StoredPoints < MAX_BUFFER_SIZE
    /\ Len(FigX(figures[1])) = StoredPoints

\* C10: a chart rendered while capture is running carries no axis-range
\* override, whatever relayoutData the graphs hold.
C10_NoOverlayWhileRunning ==
    [][(is_running /\ figures' # NoFigures) =>
          \A i \in GraphIds : /\ figures'[i].xaxis_range = NoRange
                              /\ figures'[i].yaxis_range = NoRange]_vars
C10_Witness ==
    /\ variant = 1
    /\ last.op = "tick"
    /\ is_running
    /\ DOMAIN relayout[2] = RangeKeys
    /\ figures[2].traces # <<>>
    /\ figures[2].xaxis_range = NoRange

\* C11: an axis range captured while paused is dropped once capture has
\* resumed and a chart was rendered running: a chart rendered in a later
\* pause, with no new zoom by the user, carries no range override.
C11_DroppedRangeStaysDropped ==
    (/\ variant = 1
     /\ last.op = "tick"
     /\ ~is_running)
    => \A g \in GraphIds :
          zoom_age[g] = "dropped"
          => /\ figures[g].xaxis_range = NoRange
             /\ figures[g].yaxis_range = NoRange

\* C12: on the single-page dashboard a tick taken while paused, with a
\* complete x range held by a graph, leaves the buffers as they are and
\* renders that graph with exactly these x bounds; a tick taken while running
\* renders every chart without override, its last point being the sample
\* this tick appended.
C12_PausedHoldsRunningFollows ==
    [][(variant = 1 /\ last'.op = "tick")
       => \A g \in GraphIds :
             /\ (~is_running /\ XKeys \subseteq DOMAIN relayout[g])
                => /\ buffers' = buffers
                   /\ figures'[g].xaxis_range =
                        <<relayout[g]["xaxis.range[0]"], relayout[g]["xaxis.range[1]"]>>
             /\ is_running
                => /\ figures'[g].xaxis_range = NoRange
                   /\ figures'[g].yaxis_range = NoRange
                   /\ Len(time_data') = Len(sensor_data'[ChannelNames[g]])
                   /\ time_data' # <<>>
                   /\ LET x == FigX(figures'[g])
                          y == FigY(figures'[g])
                      IN  /\ x # <<>>
                          /\ Len(y) = Len(x)
                          /\ x[Len(x)] = clock'
                          /\ clock' = clock + 1
                          /\ y[Len(y)] = NewValue(LastVal(sensor_data[ChannelNames[g]]),
                                                  TheDraw[ChannelNames[g]])]_vars
\* the first running tick after a pause in which graph 2 was zoomed
C12_Witness ==
    /\ variant = 1
    /\ last.op = "tick"
    /\ is_running
    /\ zoom_age[2] = "dropped"
    /\ XKeys \subseteq DOMAIN relayout[2]
    /\ figures[2].xaxis_range = NoRange
    /\ FigX(figures[2]) # <<>>

\* the figure of graph g as the single-page dashboard builds it before the overlay
PlainFigure1(g) ==
    update_graphs_figures(TRUE, settings, time_data, sensor_data, NoRelayout)[g]

\* C13: on the single-page dashboard, paused, for every subset of the four
\* range keys held by a graph: the tick returns its figures without error,
\* the x range is set exactly when both x keys are present, the y range
\* exactly when both y keys are present, each whatever the other axis'
\* keys, and nothing else of the chart differs from the chart built without
\* a payload.
C13_OverlayPerAxis ==
    (/\ variant = 1
     /\ last.op = "tick"
     /\ ~is_running)
    => /\ ~last.err
       /\ figures # NoFigures
       /\ \A g \in GraphIds :
             LET rd == relayout[g]
             IN  /\ figures[g].xaxis_range =
                      IF XKeys \subseteq DOMAIN rd
                      THEN <<rd["xaxis.range[0]"], rd["xaxis.range[1]"]>> ELSE NoRange
                 /\ figures[g].yaxis_range =
                      IF YKeys \subseteq DOMAIN rd
                      THEN <<rd["yaxis.range[0]"], rd["yaxis.range[1]"]>> ELSE NoRange
                 /\ [figures[g] EXCEPT !.xaxis_range = NoRange, !.yaxis_range = NoRange]
                      = PlainFigure1(g)
\* a paused tick with the y pair and only one x key: y set, x not
C13_Witness ==
    /\ variant = 1
    /\ last.op = "tick"
    /\ ~is_running
    /\ DOMAIN relayout[2] = YKeys \cup {"xaxis.range[0]"}
    /\ figures[2].yaxis_range = <<RangeValue["yaxis.range[0]"], RangeValue["yaxis.range[1]"]>>
    /\ figures[2].xaxis_range = NoRange
    /\ FigX(figures[2]) # <<>>

\* C14: on the overview of the multi-page dashboard, paused, a payload
\* holding only the complete x pair sets the x bounds of the chart and leaves
\* y alone, and a payload holding only the complete y pair sets the y bounds
\* and leaves x alone.
C14_SingleAxisOverlay2 ==
    (/\ variant = 2
     /\ page = PageDashboard
     /\ last.op = "tick"
     /\ ~is_running)
    => \A g \in GraphIds :
          LET rd == relayout[g]
          IN  /\ DOMAIN rd = XKeys
                 => /\ figures[g].xaxis_range = <<rd["xaxis.range[0]"], rd["xaxis.range[1]"]>>
                    /\ figures[g].yaxis_range = NoRange
              /\ DOMAIN rd = YKeys
                 => /\ figures[g].yaxis_range = <<rd["yaxis.range[0]"], rd["yaxis.range[1]"]>>
                    /\ figures[g].xaxis_range = NoRange

\* C15: on the overview of the multi-page dashboard, whatever subset of the
\* four range keys a graph holds, the tick returns its four charts without
\* raising, and an axis with a key missing gets no override.
C15_OverlayNeverRaises2 ==
    (/\ variant = 2
     /\ page = PageDashboard
     /\ last.op = "tick")
    => /\ ~last.err
       /\ figures # NoFigures
       /\ \A g \in GraphIds :
             /\ ~(XKeys \subseteq DOMAIN relayout[g]) => figures[g].xaxis_range = NoRange
             /\ ~(YKeys \subseteq DOMAIN relayout[g]) => figures[g].yaxis_range = NoRange

\* C16: on a detail page every call of the update callback (first render,
\* settings change, tick) returns exactly one of a full figure and a delta,
\* never both and never neither, and it returns the delta exactly when the
\* call was caused by a tick while capture is running and the buffer is not
\* empty.
C16_OnePathPerCycle ==
    [][(/\ variant = 2
        /\ page'.kind = "detail"
        /\ last'.op \in {"navigate", "settings", "tick"})
       => LET delta == detail_extend' # NoExtend
              full == detail_figure' # NoFigure
          IN  /\ ~(delta /\ full)
              /\ delta \/ full
              /\ delta <=> (last'.op = "tick" /\ is_running /\ time_data # <<>>)]_vars
\* a running tick on a detail page has emitted a delta
C16_Witness ==
    /\ variant = 2
    /\ page.kind = "detail"
    /\ last.op = "tick"
    /\ is_running
    /\ detail_extend # NoExtend
    /\ detail_figure = NoFigure

\* C17: on the detail page of sensor i, capture running and the buffer not
\* empty, a tick emits a delta of exactly one x and one y, the timestamp and
\* the value of sensor i at the same last position of their buffers, for
\* trace index 0, with the detail page's display-points setting (the detail
\* default when the store holds none) as the number of points to keep.
C17_DeltaShape ==
    (/\ variant = 2
     /\ page.kind = "detail"
     /\ last.op = "tick"
     /\ is_running
     /\ time_data # <<>>)
    => LET buf == sensor_data[ChannelNames[page.sensor]]
           n == Len(time_data)
       IN  /\ Len(buf) = n
           /\ detail_extend.x = <<time_data[n]>>
           /\ detail_extend.y = <<buf[n]>>
           /\ detail_extend.trace_indices = <<0>>
           /\ detail_extend.max_points = controls.points
           /\ detail_extend.max_points =
                IF "points" \in DOMAIN detail_settings
                THEN detail_settings["points"] ELSE DEFAULT_DISPLAY_POINTS_DETAIL
\* a delta from a full buffer with the display-points slider moved off its default
C17_Witness ==
    /\ variant = 2
    /\ page.kind = "detail"
    /\ last.op = "tick"
    /\ is_running
    /\ Len(time_data) = MAX_BUFFER_SIZE
    /\ controls.points # DEFAULT_DISPLAY_POINTS_DETAIL
    /\ detail_extend.x = <<time_data[MAX_BUFFER_SIZE]>>

\* C18: every delta sent to the detail graph carries a point the graph does
\* not show yet: no buffered sample reaches the rendered trace twice, neither
\* by two deltas nor by a full redraw followed by a delta.
C18_DeltaIsNew ==
    [][(variant = 2 /\ detail_extend' # NoExtend)
       => \A i \in 1..Len(surface.x) : surface.x[i] # detail_extend'.x[1]]_vars

\* C19: the table an export click yields has the columns timestamp, s1, s2,
\* s3, s4 and one row per buffered sample, row i holding the i-th oldest
\* timestamp and the i-th oldest value of each channel, oldest first; with
\* empty buffers it is the header with no rows, and the export never fails.
C19_ExportTable ==
    last.op = "export"
    => /\ ~last.err
       /\ download.header = <<"timestamp", "s1", "s2", "s3", "s4">>
       /\ Len(download.rows) = Len(time_data)
       /\ \A i \in 1..Len(download.rows) :
             /\ Len(download.rows[i]) = 5
             /\ download.rows[i][1] = time_data[i]
             /\ \A k \in 1..4 : download.rows[i][k + 1] = sensor_data[ChannelNames[k]][i]
             /\ i > 1 => download.rows[i - 1][1] < download.rows[i][1]
       /\ time_data = <<>> => download.rows = <<>>
\* an export of full buffers that have already dropped their oldest sample
C19_Witness ==
    /\ last.op = "export"
    /\ clock > MAX_BUFFER_SIZE
    /\ Len(download.rows) = MAX_BUFFER_SIZE
    /\ download.rows[1][1] = clock - MAX_BUFFER_SIZE + 1

\* C20: on the multi-page dashboard a change to any control of the overview
\* leaves the detail settings store as it is, and a change to any control of
\* a detail page leaves the dashboard settings store as it is; the store of
\* the page shown takes the new value.
C20_StoresIndependent ==
    [][(variant = 2 /\ last'.op = "settings")
       => /\ page.kind = "dashboard"
             => /\ detail_settings' = detail_settings
                /\ settings' # settings
          /\ page.kind = "detail"
             => /\ settings' = settings
                /\ detail_settings' # detail_settings]_vars
\* the line shape of a detail page was changed while the dashboard store
\* holds values the user chose on the overview
C20_Witness ==
    /\ variant = 2
    /\ last.op = "settings"
    /\ page.kind = "detail"
    /\ Truthy(settings)
    /\ settings # SyncStore(2, DashControls)
    /\ Truthy(detail_settings)
    /\ detail_settings["shape"] # DetailControls.shape
    /\ settings["shape"] # detail_settings["shape"]

\* C21: the stored marker size survives a marker off/on cycle: a settings
\* change that is not a move of the marker size slider (switching markers
\* off, switching them on again) leaves the marker size in the settings store
\* as it was, for every size of the slider's range.
C21_MarkerSizeKept ==
    [][(/\ variant = 1
        /\ last'.op = "settings"
        /\ last'.control # "size")
       => /\ settings'["marker_size"] = settings["marker_size"]
          /\ settings'["show_markers"] = controls'.markers]_vars
\* markers were just switched on again with a size the user chose earlier,
\* which the slider only allows while markers are on: on, size 12, off, on
C21_Witness ==
    /\ variant = 1
    /\ last.op = "settings"
    /\ last.control = "markers"
    /\ settings["show_markers"] = "on"
    /\ settings["marker_size"] = MarkerSizeMax

\* a chart over the buffers as they are: a shell (title and axes, no trace)
\* when they are empty, else one trace with x and y of the same length
ShellOrOneTrace(fig) ==
    /\ fig.title >= 0
    /\ IF time_data = <<>>
       THEN fig.traces = <<>>
       ELSE /\ Len(fig.traces) = 1
            /\ Len(fig.traces[1].x) = Len(fig.traces[1].y)
            /\ Len(fig.traces[1].x) > 0

\* C22: a chart update of the single-page dashboard, and a full redraw of a
\* detail page, never fail; over empty buffers every chart is a shell with no
\* trace, over a non-empty window every chart has exactly one trace whose x
\* and y have the same length.
C22_ShellOrTrace ==
    /\ (variant = 1 /\ last.op \in {"load", "tick"})
       => /\ ~last.err
          /\ \A g \in GraphIds : ShellOrOneTrace(figures[g])
    /\ (variant = 2 /\ page.kind = "detail" /\ last.op \in {"navigate", "settings"})
       => /\ ~last.err
          /\ ShellOrOneTrace(detail_figure)
    /\ (variant = 2 /\ page.kind = "detail" /\ last.op = "tick" /\ ~is_running)
       => /\ ~last.err
          /\ ShellOrOneTrace(detail_figure)
\* a tick of the single-page dashboard over empty buffers gave four shells
C22_Witness ==
    /\ variant = 1
    /\ last.op = "tick"
    /\ time_data = <<>>
    /\ \A g \in GraphIds : figures[g] = create_base_figure(g)

\* the pathname has the form /sensor-i with i in 1..4
IsSensorPath(p) ==
    /\ Len(p) = Len(SensorPrefix) + 1
    /\ StartsWith(p, SensorPrefix)
    /\ p[Len(p)] \in {"1", "2", "3", "4"}

\* C23 (second part): rendering a page leaves the buffers, the capture state
\* and both settings stores as they were.
C23_RenderKeepsState ==
    [][(variant = 2 /\ last'.op = "navigate")
       => /\ buffers' = buffers
          /\ is_running' = is_running
          /\ settings' = settings
          /\ detail_settings' = detail_settings]_vars

\* C23: the router shows the overview only for '/', the detail page of
\* sensor i only for '/sensor-i' with i in 1..4, and the not-found page for
\* every other path, a path with extra segments such as '/sensor-x-2'
\* included.
C23_Routes ==
    (variant = 2 /\ pathname # NoPath)
    => /\ page = PageDashboard <=> pathname = PathRoot
       /\ page.kind = "detail" <=> IsSensorPath(pathname)
       /\ page.kind = "detail" => page.sensor = DigitValue(pathname[Len(pathname)])
       /\ page = PageNotFound <=> (pathname # PathRoot /\ ~IsSensorPath(pathname))

\* C24: from every last value in [0, 120] and with every draw in
\* [-2.5, 2.5] the generator appends a value in [0, 120], so every value a
\* channel buffer holds lies in [0, 120].
C24_ValuesInRange ==
    \A name \in Channels : \A i \in 1..Len(sensor_data[name]) :
       /\ sensor_data[name][i] >= ClampLow
       /\ sensor_data[name][i] <= ClampHigh
\* the largest last value with the largest draw, and the smallest with the
\* smallest
C24_Witness ==
    /\ last.op = "tick"
    /\ Len(sensor_data["s1"]) = 2
    /\ sensor_data["s1"][1] = ClampHigh
    /\ sensor_data["s1"][2] = NewValue(ClampHigh, DrawMax)
    /\ sensor_data["s2"][2] = NewValue(ClampHigh, -DrawMax)

\* C25: on a detail page, capture paused, once the user has zoomed the chart
\* to a complete x range, the chart every later paused tick renders carries
\* that x range.
C25_DetailOverlay ==
    (/\ variant = 2
     /\ page.kind = "detail"
     /\ last.op = "tick"
     /\ ~is_running
     /\ time_data # <<>>
     /\ XKeys \subseteq DOMAIN detail_relayout)
    => detail_figure.xaxis_range =
         <<detail_relayout["xaxis.range[0]"], detail_relayout["xaxis.range[1]"]>>

\* C26: a download is produced only by a click on the export button, by no
\* tick, toggle, settings change, zoom or page render; and an export leaves
\* the buffers, the capture state and the settings as they were.
C26_ExportOnlyOnClick ==
    [][/\ download' # NoDownload => last'.op = "export"
       /\ last'.op = "export"
          => /\ buffers' = buffers
             /\ is_running' = is_running
             /\ settings' = settings
             /\ detail_settings' = detail_settings
             /\ controls' = controls]_vars

\* C27: the buffers evict in lockstep: in every state, also after more
\* appends than the capacity, position i of every channel buffer holds the
\* value appended by the tick that stamped position i of the timestamp
\* buffer (the k-th tick stamps k and appends the k-th value of the walk).
C27_Aligned ==
    \A name \in Channels :
       /\ Len(sensor_data[name]) = Len(time_data)
       /\ \A i \in 1..Len(time_data) :
             sensor_data[name][i] = SampleValue(name, time_data[i])
\* full buffers that have evicted, the values of successive ticks differing
C27_Witness ==
    /\ last.op = "tick"
    /\ clock > MAX_BUFFER_SIZE
    /\ time_data[1] = clock - MAX_BUFFER_SIZE + 1
    /\ \A name \in Channels :
          /\ sensor_data[name][1] = SampleValue(name, clock - MAX_BUFFER_SIZE + 1)
          /\ sensor_data[name][1] # SampleValue(name, clock - MAX_BUFFER_SIZE)
          /\ sensor_data[name][1] # sensor_data[name][2]

\* the trace uses the settings st (keys of variant v) as chart assembly must
TraceFollowsSettings(trace, st, v) ==
    /\ st[KeyMarkers(v)] = "on"
       => /\ trace.mode = "lines+markers"
          /\ trace.marker = [size |-> st[KeySize(v)]]
    /\ st[KeyMarkers(v)] = "off"
       => /\ trace.mode = "lines"
          /\ DOMAIN trace.marker = {}
    /\ trace.line.shape = st[KeyShape(v)]

C29_DeltaMatchesRedraw ==
    (variant = 2 /\ page.kind = "detail")
    => surface = SurfaceOf(detail_redraw(detail_settings, time_data, sensor_data,
                                         page.sensor))

\* ticks never change the status text: it is recomputed on a toggle and on an
\* export only
C30_TicksKeepStatus ==
    [][last'.op = "tick" => status' = status]_vars

\* C30: the status tracks the capture state: with capture running on a
\* dashboard whose ticks have filled the buffers, the status reads
\* 'Logging: RUNNING', not still 'Waiting for data...' or 'Exported CSV'.
C30_StatusTracksCapture ==
    (/\ page = PageDashboard
     /\ last.op = "tick"
     /\ ~last.err
     /\ is_running
     /\ Len(time_data) = MAX_BUFFER_SIZE)
    => status = StatusRunning
====
